---- MODULE Spec2Model ----
(***************************************************************************)
(* Charge accrual and invoice lifecycle of the drayage billing agent.      *)
(*                                                                         *)
(* The specifications share the variables below:                           *)
(*   SpecCalc     calculate_per_diem on every bounded input                *)
(*   SpecAccrual  the three accrual calculations and calculate_all_charges *)
(*   SpecWindow   repeated calculations while the contract is edited       *)
(*   Spec         the invoice lifecycle (services/invoice_generator.py):   *)
(*                creation, accounting sync, send, payment reconciliation  *)
(*   SpecSeq      invoices created one after the other                     *)
(*   SpecConc     two invoice builds interleaving on the invoices table    *)
(*   SpecBill     process_load_billing (agents/billing_agent.py)           *)
(*                                                                         *)
(* Dates are day ordinals.  Money is in whole dollars.  A nullable column  *)
(* is a sequence of length 0 (None) or 1 (a value).  The accounting client *)
(* is the collaborator handed to InvoiceGenerator: get_invoice answers     *)
(* with a QBInvoice or with nothing.                                       *)
(***************************************************************************)
EXTENDS Integers, Sequences, FiniteSets, TLC

VARIABLES
    container,    \* calculator input: the Container row
    customer,     \* calculator input: the Customer row
    as_of_date,   \* calculator input: the as_of_date argument (nullable)
    per_diem,     \* calculator output: <<days, amount>> (None before a call)
    load,         \* calculator input: the Load row of calculate_all_charges
    accrual,      \* the last demurrage / detention / all-charges call
    raised,       \* whether the last calculator call raised to its caller
    today,        \* date.today()
    invoices,     \* the invoices table, in insertion order (id = position)
    qb,           \* QuickBooks: qb invoice id -> [total_amount]
    pc,           \* continuation of create_invoice_from_load after its commit
    last,         \* the last operation applied and what it was given
    builds,       \* SpecConc: the two in-flight create_invoice_from_load calls
    charges_table, \* the charges table, in insertion order
    billing       \* SpecBill: the position of process_load_billing

vars == <<container, customer, as_of_date, per_diem, load, accrual, raised,
          today, invoices, qb, pc, last, builds, charges_table, billing>>

---------------------------------------------------------------------------
(* Nullable values and Python truthiness *)

None == <<>>

Some(v) == <<v>>

Val(x) == x[1]

Opt(S) == {None} \cup {Some(v) : v \in S}

\* `x or y` on a nullable number: None and 0 are falsy
Truthy(x) == x # None /\ Val(x) # 0

NoCall == [op |-> "none"]

Idle == [at |-> "idle"]

\* no Load row is under calculation
NoLoad == [id |-> 0]

---------------------------------------------------------------------------
(* Bounds *)

MaxDate == 3

Dates == 0..MaxDate

---------------------------------------------------------------------------
(* Settings *)

default_per_diem_rate == 100

default_free_days == 3

---------------------------------------------------------------------------
(* Accrual calculator *)

\* customer.per_diem_free_days or customer.free_days or settings.default_free_days
PerDiemFreeDays(cust) ==
    IF Truthy(cust.per_diem_free_days) THEN Val(cust.per_diem_free_days)
    ELSE IF Truthy(cust.free_days) THEN Val(cust.free_days)
    ELSE default_free_days

\* customer.per_diem_rate or settings.default_per_diem_rate
PerDiemRate(cust) ==
    IF Truthy(cust.per_diem_rate) THEN Val(cust.per_diem_rate)
    ELSE default_per_diem_rate

calculate_per_diem(cont, cust, asof) ==
    LET as_of == IF asof = None THEN today ELSE Val(asof)
    IN  IF cont.picked_up = None THEN <<0, 0>>
        ELSE
          LET end_date == IF cont.returned_empty # None
                            THEN Val(cont.returned_empty)
                            ELSE as_of
              per_diem_start ==
                  IF cont.per_diem_starts = None
                    THEN Val(cont.picked_up) + PerDiemFreeDays(cust)
                    ELSE Val(cont.per_diem_starts)
          IN  IF end_date <= per_diem_start THEN <<0, 0>>
              ELSE LET days == end_date - per_diem_start
                   IN  <<days, days * PerDiemRate(cust)>>

default_demurrage_rate == 150

default_detention_rate == 125

\* customer.demurrage_free_days or settings.default_free_days
DemurrageFreeDays(cust) ==
    IF Truthy(cust.demurrage_free_days) THEN Val(cust.demurrage_free_days)
    ELSE default_free_days

\* customer.demurrage_rate or settings.default_demurrage_rate
DemurrageRate(cust) ==
    IF Truthy(cust.demurrage_rate) THEN Val(cust.demurrage_rate)
    ELSE default_demurrage_rate

\* customer.detention_rate or settings.default_detention_rate
DetentionRate(cust) ==
    IF Truthy(cust.detention_rate) THEN Val(cust.detention_rate)
    ELSE default_detention_rate

\* a slip: a cached start is used although nothing was discharged
calculate_demurrage_unguarded(cont, cust, asof) ==
    LET as_of == IF asof = None THEN today ELSE Val(asof)
        end_date == IF cont.picked_up # None THEN Val(cont.picked_up)
                    ELSE as_of
    IN  IF cont.vessel_discharged = None /\ cont.demurrage_starts = None
          THEN <<0, 0>>
        ELSE
          LET demurrage_start ==
                  IF cont.demurrage_starts = None
                    THEN Val(cont.vessel_discharged) + DemurrageFreeDays(cust)
                    ELSE Val(cont.demurrage_starts)
          IN  IF end_date <= demurrage_start THEN <<0, 0>>
              ELSE LET days == end_date - demurrage_start
                   IN  <<days, days * DemurrageRate(cust)>>

calculate_demurrage(cont, cust, asof) ==
    LET as_of == IF asof = None THEN today ELSE Val(asof)
    IN  IF cont.vessel_discharged = None THEN <<0, 0>>
        ELSE
          LET end_date == IF cont.picked_up # None
                            THEN Val(cont.picked_up)
                            ELSE as_of
              demurrage_start ==
                  IF cont.demurrage_starts = None
                    THEN Val(cont.vessel_discharged) + DemurrageFreeDays(cust)
                    ELSE Val(cont.demurrage_starts)
          IN  IF end_date <= demurrage_start THEN <<0, 0>>
              ELSE LET days == end_date - demurrage_start
                   IN  <<days, days * DemurrageRate(cust)>>

\* timedelta(days=1): the free time for delivery
DetentionFreeDays == 1

\* a slip: the delivery milestone does not close the window
calculate_detention_open_ended(cont, cust, asof) ==
    LET as_of == IF asof = None THEN today ELSE Val(asof)
    IN  IF cont.picked_up = None THEN <<0, 0>>
        ELSE
          LET end_date == as_of
              detention_start == Val(cont.picked_up) + DetentionFreeDays
          IN  IF end_date <= detention_start THEN <<0, 0>>
              ELSE LET days == end_date - detention_start
                   IN  <<days, days * DetentionRate(cust)>>

calculate_detention(cont, cust, asof) ==
    LET as_of == IF asof = None THEN today ELSE Val(asof)
    IN  IF cont.picked_up = None THEN <<0, 0>>
        ELSE
          LET end_date == IF cont.delivered # None
                            THEN Val(cont.delivered)
                            ELSE as_of
              detention_start == Val(cont.picked_up) + DetentionFreeDays
          IN  IF end_date <= detention_start THEN <<0, 0>>
              ELSE LET days == end_date - detention_start
                   IN  <<days, days * DetentionRate(cust)>>

\* the members of the ChargeType enum
ChargeType == {"base_freight", "per_diem"}

\* a Charge row as calculate_all_charges constructs it (confidence in
\* percent; is_disputed is the column default)
NewCharge(charge_type, description, rate, quantity, amount, confidence) ==
    [charge_type |-> charge_type, description |-> description,
     rate |-> rate, quantity |-> quantity, amount |-> amount,
     is_billable |-> TRUE, is_disputed |-> FALSE,
     ai_confidence_score |-> Some(confidence)]

\* calculate_all_charges: naming a charge type that is not a member of
\* ChargeType raises AttributeError, and the except clause returns []
calculate_all_charges(ld, asof) ==
    IF ld.container = None THEN <<>>
    ELSE
      LET cont == Val(ld.container)
          cust == ld.customer
          freight ==
              IF Truthy(ld.base_freight_rate)
                THEN <<NewCharge("base_freight", "Base freight",
                                 Val(ld.base_freight_rate), 1,
                                 Val(ld.base_freight_rate), 100)>>
                ELSE <<>>
          pd == calculate_per_diem(cont, cust, asof)
          per_diem_charge ==
              IF pd[1] > 0
                THEN <<NewCharge("per_diem", "Per diem charges",
                                 PerDiemRate(cust), pd[1], pd[2], 95)>>
                ELSE <<>>
          dm == calculate_demurrage(cont, cust, asof)
          demurrage_charge ==
              IF dm[1] > 0
                THEN <<NewCharge("demurrage", "Demurrage charges",
                                 DemurrageRate(cust), dm[1], dm[2], 95)>>
                ELSE <<>>
          dt == calculate_detention(cont, cust, asof)
          detention_charge ==
              IF dt[1] > 0
                THEN <<NewCharge("detention", "Detention charges",
                                 DetentionRate(cust), dt[1], dt[2], 90)>>
                ELSE <<>>
      IN  IF dm[1] > 0 /\ "demurrage" \notin ChargeType THEN <<>>
          ELSE IF dt[1] > 0 /\ "detention" \notin ChargeType THEN <<>>
          ELSE freight \o per_diem_charge \o demurrage_charge
                 \o detention_charge

---------------------------------------------------------------------------
(* Invoice records *)

MaxInvoices == 3

MaxQB == 2

MaxBuilds == 2

MonthLength == 2

\* invoice_date.strftime('%Y%m'): the month a day falls in
Month(d) == d \div MonthLength

Word(w) == [word |-> w, num |-> None]

Num(w, n) == [word |-> w, num |-> Some(n)]

\* payment_terms strings, as their whitespace-separated tokens; the column is
\* nullable, so a customer's payment_terms is Some(tokens) or None
Net1 == <<Word("Net"), Num("1", 1)>>

DueOnReceipt == <<Word("Due"), Word("on"), Word("Receipt")>>

UponInvoice == <<Word("Upon"), Word("invoice")>>

Customers ==
    { [id |-> 1, auto_invoice |-> TRUE,  quickbooks_customer_id |-> Some("QB-1"),
       payment_terms |-> Some(Net1)],
      [id |-> 2, auto_invoice |-> FALSE, quickbooks_customer_id |-> Some("QB-2"),
       payment_terms |-> Some(DueOnReceipt)],
      [id |-> 3, auto_invoice |-> TRUE,  quickbooks_customer_id |-> None,
       payment_terms |-> Some(UponInvoice)] }

\* Charge rows as calculate_all_charges builds them (confidence in percent)
FreightCharge ==
    [charge_type |-> "base_freight", description |-> "Base freight",
     rate |-> 20, quantity |-> 1, amount |-> 20, is_billable |-> TRUE,
     is_disputed |-> FALSE, ai_confidence_score |-> Some(100)]

PerDiemCharge ==
    [charge_type |-> "per_diem", description |-> "Per diem charges",
     rate |-> 10, quantity |-> 3, amount |-> 30, is_billable |-> TRUE,
     is_disputed |-> FALSE, ai_confidence_score |-> Some(95)]

AbsorbedCharge ==
    [charge_type |-> "per_diem", description |-> "Per diem charges",
     rate |-> 10, quantity |-> 1, amount |-> 10, is_billable |-> FALSE,
     is_disputed |-> FALSE, ai_confidence_score |-> Some(95)]

ChargeLists ==
    { <<FreightCharge>>, <<FreightCharge, PerDiemCharge>>,
      <<AbsorbedCharge, FreightCharge>> }

\* What the accounting system may report as the open balance
BalanceValues == {-5, 0, 10, 20, 31}

RECURSIVE SumAmounts(_)
SumAmounts(rows) ==
    IF rows = <<>> THEN 0 ELSE rows[1].amount + SumAmounts(Tail(rows))

RECURSIVE Billable(_)
Billable(charges) ==
    IF charges = <<>> THEN <<>>
    ELSE IF charges[1].is_billable
           THEN <<charges[1]>> \o Billable(Tail(charges))
           ELSE Billable(Tail(charges))

\* a slip: the is_billable filter is left out
SubtotalAll(charges) == SumAmounts(charges)

\* sum(charge.amount for charge in charges if charge.is_billable)
Subtotal(charges) == SumAmounts(Billable(charges))

---------------------------------------------------------------------------
(* Invoice numbers: "INV-YYYYMM-" followed by the sequence, as a string *)

PadWidth == 5

RECURSIVE Digits(_)
Digits(n) == IF n < 10 THEN <<n>> ELSE Append(Digits(n \div 10), n % 10)

\* f"{seq:05d}"
Format05d(n) ==
    LET d == Digits(n)
        k == PadWidth - Len(d)
    IN  IF k <= 0 THEN d
        ELSE [i \in 1..PadWidth |-> IF i <= k THEN 0 ELSE d[i - k]]

RECURSIVE ParseInt(_)
\* int(invoice_number.split("-")[-1])
ParseInt(d) ==
    IF d = <<>> THEN 0 ELSE 10 * ParseInt(SubSeq(d, 1, Len(d) - 1)) + d[Len(d)]

\* string order of two digit strings, as ORDER BY invoice_number compares
StrLess(a, b) ==
    \/ \E k \in 1..Len(a) :
          /\ k <= Len(b)
          /\ \A j \in 1..(k - 1) : a[j] = b[j]
          /\ a[k] < b[k]
    \/ /\ Len(a) < Len(b)
       /\ \A j \in 1..Len(a) : a[j] = b[j]

InvoiceNumber(prefix, seq) == [prefix |-> prefix, seq |-> Format05d(seq)]

\* a slip: the month filter on the existing numbers is left out
generate_invoice_number_any_month(table, invoice_date) ==
    LET prefix == Month(invoice_date)
        same == 1..Len(table)
    IN  IF same = {} THEN InvoiceNumber(prefix, 1)
        ELSE LET li == CHOOSE i \in same :
                         \A j \in same :
                            ~ StrLess(table[i].invoice_number.seq,
                                      table[j].invoice_number.seq)
             IN  InvoiceNumber(prefix,
                               ParseInt(table[li].invoice_number.seq) + 1)

\* _generate_invoice_number, reading the committed rows `table`
generate_invoice_number(table, invoice_date) ==
    LET prefix == Month(invoice_date)
        same == {i \in 1..Len(table) : table[i].invoice_number.prefix = prefix}
    IN  IF same = {} THEN InvoiceNumber(prefix, 1)
        ELSE LET li == CHOOSE i \in same :
                         \A j \in same :
                            ~ StrLess(table[i].invoice_number.seq,
                                      table[j].invoice_number.seq)
             IN  InvoiceNumber(prefix,
                               ParseInt(table[li].invoice_number.seq) + 1)

DefaultTermDays == 30

ContainsDueOnReceipt(terms) ==
    \E k \in 1..(Len(terms) - 2) :
        /\ terms[k].word = "Due"
        /\ terms[k + 1].word = "on"
        /\ terms[k + 2].word = "Receipt"

\* _calculate_due_date raises when payment_terms is None: the `in` test on
\* the terms stands before the try block
due_date_raises(payment_terms) == payment_terms = None

\* _calculate_due_date, for terms that are a string
calculate_due_date(payment_terms, invoice_date) ==
    LET terms == Val(payment_terms)
    IN  IF ContainsDueOnReceipt(terms) THEN invoice_date
        ELSE IF terms # <<>> /\ terms[Len(terms)].num # None
               THEN invoice_date + Val(terms[Len(terms)].num)
               ELSE invoice_date + DefaultTermDays

ReviewConfidence == 80

HighValueThreshold == 5000

\* _requires_review
requires_review(charges) ==
    \/ \E k \in 1..Len(charges) :
          \/ /\ Truthy(charges[k].ai_confidence_score)
             /\ Val(charges[k].ai_confidence_score) < ReviewConfidence
          \/ charges[k].is_disputed
    \/ SumAmounts(charges) > HighValueThreshold

\* a slip: a line item is built for every charge, billable or not
LineItemsAll(charges) ==
    LET RECURSIVE Build(_)
        Build(k) ==
            IF k > Len(charges) THEN <<>>
            ELSE <<[item_number |-> k,
                    description |-> charges[k].description,
                    quantity |-> charges[k].quantity,
                    unit_price |-> charges[k].rate,
                    amount |-> charges[k].amount]>> \o Build(k + 1)
    IN  Build(1)

\* the InvoiceLineItem rows built from the billable charges
LineItems(charges) ==
    LET idx == {k \in 1..Len(charges) : charges[k].is_billable}
        RECURSIVE Build(_)
        Build(k) ==
            IF k > Len(charges) THEN <<>>
            ELSE IF k \in idx
                   THEN <<[item_number |-> k,
                           description |-> charges[k].description,
                           quantity |-> charges[k].quantity,
                           unit_price |-> charges[k].rate,
                           amount |-> charges[k].amount]>> \o Build(k + 1)
                   ELSE Build(k + 1)
    IN  Build(1)

\* the Invoice row create_invoice_from_load constructs and commits
NewInvoice(table, cust, charges) ==
    LET subtotal == Subtotal(charges)
        tax_amount == 0
        total_amount == subtotal + tax_amount
    IN  [invoice_number |-> generate_invoice_number(table, today),
         customer |-> cust,
         subtotal |-> subtotal,
         tax_amount |-> tax_amount,
         total_amount |-> total_amount,
         amount_paid |-> 0,
         balance_due |-> total_amount,
         invoice_date |-> today,
         due_date |-> calculate_due_date(cust.payment_terms, today),
         sent_date |-> None,
         paid_date |-> None,
         status |-> "draft",
         is_disputed |-> FALSE,
         dispute_amount |-> None,
         requires_human_review |-> requires_review(charges),
         quickbooks_invoice_id |-> None,
         line_items |-> LineItems(charges),
         charges |-> charges]

HasNumber(table, number) ==
    \E i \in 1..Len(table) : table[i].invoice_number = number

---------------------------------------------------------------------------
(* Accounting sync, send and payment reconciliation, on one Invoice row *)

\* sync_to_quickbooks: `created` is whether qb_client.create_invoice answered
sync_to_quickbooks(inv, books, created) ==
    IF inv.customer.quickbooks_customer_id = None
      THEN [ok |-> FALSE, inv |-> inv, qb |-> books]
    ELSE IF ~ created
      THEN [ok |-> FALSE, inv |-> inv, qb |-> books]
    ELSE [ok |-> TRUE,
          inv |-> [inv EXCEPT !.quickbooks_invoice_id = Some(Len(books) + 1),
                              !.status = "approved"],
          qb |-> Append(books,
                        [doc_number |-> inv.invoice_number,
                         total_amount |-> SumAmounts(inv.line_items)])]

\* send_to_customer: `sent` is whether qb_client.send_invoice succeeded
send_to_customer(inv, books, created, sent) ==
    LET s == IF inv.quickbooks_invoice_id = None
               THEN sync_to_quickbooks(inv, books, created)
               ELSE [ok |-> TRUE, inv |-> inv, qb |-> books]
    IN  IF ~ s.ok THEN s
        ELSE IF sent
          THEN [ok |-> TRUE,
                inv |-> [s.inv EXCEPT !.status = "sent",
                                      !.sent_date = Some(today)],
                qb |-> s.qb]
          ELSE [ok |-> FALSE, inv |-> s.inv, qb |-> s.qb]

ShortPaymentThreshold == 10

\* _handle_short_payment, called after amount_paid was overwritten
handle_short_payment(inv, old_balance, new_balance) ==
    LET short_amount == old_balance - new_balance - inv.amount_paid
    IN  IF short_amount > ShortPaymentThreshold
          THEN [inv EXCEPT !.is_disputed = TRUE,
                           !.dispute_amount = Some(short_amount),
                           !.status = "disputed"]
          ELSE inv

\* a slip: the amount paid is taken against the balance known before
ApplyBalanceStale(inv, qb_invoice) ==
    [inv EXCEPT !.balance_due = qb_invoice.balance,
                !.amount_paid = qb_invoice.total_amount - inv.balance_due]

\* lines 245-246: the reported balance and the amount paid it implies
ApplyBalance(inv, qb_invoice) ==
    [inv EXCEPT !.balance_due = qb_invoice.balance,
                !.amount_paid = qb_invoice.total_amount - qb_invoice.balance]

\* a slip: the payment date is not recorded
MarkPaidNoDate(inv) == [inv EXCEPT !.status = "paid"]

\* lines 250-251
MarkPaid(inv) == [inv EXCEPT !.status = "paid", !.paid_date = Some(today)]

\* check_payment_status: `resp` is what qb_client.get_invoice answered
check_payment_status(inv, resp) ==
    IF inv.quickbooks_invoice_id = None THEN [ok |-> FALSE, inv |-> inv]
    ELSE IF resp = None THEN [ok |-> FALSE, inv |-> inv]
    ELSE
      LET qb_invoice == Val(resp)
          old_balance == inv.balance_due
          upd == ApplyBalance(inv, qb_invoice)
      IN  [ok |-> TRUE,
           inv |->
             IF qb_invoice.balance = 0
               THEN MarkPaid(upd)
             ELSE IF qb_invoice.balance < qb_invoice.total_amount
               THEN LET part == [upd EXCEPT !.status = "partially_paid"]
                    IN  IF qb_invoice.balance > 0
                           /\ old_balance > qb_invoice.balance
                          THEN handle_short_payment(part, old_balance,
                                                    qb_invoice.balance)
                          ELSE part
             ELSE IF today > upd.due_date
               THEN [upd EXCEPT !.status = "overdue"]
             ELSE upd]

\* what get_invoice can answer for an invoice: nothing, or the QuickBooks
\* invoice with its total and a reported balance
Responses(inv) ==
    IF inv.quickbooks_invoice_id = None THEN {None}
    ELSE {None} \cup
         { Some([total_amount |-> qb[Val(inv.quickbooks_invoice_id)].total_amount,
                 balance |-> b]) : b \in BalanceValues }

---------------------------------------------------------------------------
(* Actions of the invoice lifecycle *)

calcVars == <<container, customer, as_of_date, per_diem, load, accrual, raised>>

billVars == <<charges_table, billing>>

\* create_invoice_from_load up to its commit; the auto-send that follows the
\* commit is the AutoSend step.  A load without customer, a due date that
\* cannot be computed and a taken invoice number all end in the except branch:
\* rollback, None returned
CreateInvoiceFromLoad(load_customer, charges, auto_send) ==
    /\ pc = Idle
    /\ IF load_customer = None
         THEN /\ last' = [op |-> "create", ok |-> FALSE,
                          customer |-> load_customer]
              /\ UNCHANGED <<invoices, pc>>
         ELSE LET cust == Val(load_customer)
                  inv == NewInvoice(invoices, cust, charges)
              IN  IF \/ due_date_raises(cust.payment_terms)
                     \/ HasNumber(invoices, inv.invoice_number)
                    THEN /\ last' = [op |-> "create", ok |-> FALSE,
                                     customer |-> load_customer]
                         /\ UNCHANGED <<invoices, pc>>
                    ELSE /\ invoices' = Append(invoices, inv)
                         /\ last' = [op |-> "create", ok |-> TRUE,
                                     inv |-> Len(invoices) + 1,
                                     customer |-> load_customer]
                         /\ pc' = IF auto_send /\ cust.auto_invoice
                                    THEN [at |-> "auto_send",
                                          inv |-> Len(invoices) + 1]
                                    ELSE Idle
    /\ UNCHANGED <<calcVars, billVars, today, qb, builds>>

\* lines 118-120 of create_invoice_from_load
AutoSend(created, sent) ==
    /\ pc.at = "auto_send"
    /\ LET r == send_to_customer(invoices[pc.inv], qb, created, sent)
       IN  /\ invoices' = [invoices EXCEPT ![pc.inv] = r.inv]
           /\ qb' = r.qb
           /\ last' = [op |-> "auto_send", ok |-> r.ok, inv |-> pc.inv]
    /\ pc' = Idle
    /\ UNCHANGED <<calcVars, billVars, today, builds>>

SyncToQuickbooks(i, created) ==
    /\ pc = Idle
    /\ Len(qb) < MaxQB
    /\ LET r == sync_to_quickbooks(invoices[i], qb, created)
       IN  /\ invoices' = [invoices EXCEPT ![i] = r.inv]
           /\ qb' = r.qb
           /\ last' = [op |-> "sync", ok |-> r.ok, inv |-> i]
    /\ UNCHANGED <<calcVars, billVars, today, pc, builds>>

SendToCustomer(i, created, sent) ==
    /\ pc = Idle
    /\ Len(qb) < MaxQB
    /\ LET r == send_to_customer(invoices[i], qb, created, sent)
       IN  /\ invoices' = [invoices EXCEPT ![i] = r.inv]
           /\ qb' = r.qb
           /\ last' = [op |-> "send", ok |-> r.ok, inv |-> i]
    /\ UNCHANGED <<calcVars, billVars, today, pc, builds>>

CheckPaymentStatus(i, resp) ==
    /\ pc = Idle
    /\ LET r == check_payment_status(invoices[i], resp)
       IN  /\ invoices' = [invoices EXCEPT ![i] = r.inv]
           /\ last' = [op |-> "check", ok |-> r.ok, inv |-> i, resp |-> resp]
    /\ UNCHANGED <<calcVars, billVars, today, qb, pc, builds>>

\* the calendar moves on
Tick ==
    /\ pc = Idle
    /\ billing = Idle
    /\ today < MaxDate
    /\ today' = today + 1
    /\ last' = [op |-> "tick"]
    /\ UNCHANGED <<calcVars, billVars, invoices, qb, pc, builds>>

InitInvoices ==
    /\ container = [picked_up |-> None, returned_empty |-> None,
                    per_diem_starts |-> None]
    /\ customer = [per_diem_free_days |-> None, free_days |-> None,
                   per_diem_rate |-> None]
    /\ as_of_date = None
    /\ per_diem = None
    /\ load = NoLoad
    /\ accrual = NoCall
    /\ raised = FALSE
    /\ charges_table = <<>>
    /\ billing = Idle
    /\ today = 0
    /\ invoices = <<>>
    /\ qb = <<>>
    /\ pc = Idle
    /\ last = NoCall
    /\ builds = <<>>

\* Spec: the life of one invoice
Create ==
    /\ invoices = <<>>
    /\ \E c \in Opt(Customers), ch \in ChargeLists, a \in BOOLEAN :
          CreateInvoiceFromLoad(c, ch, a)

AutoSendStep == \E created \in BOOLEAN, sent \in BOOLEAN : AutoSend(created, sent)

Sync == \E i \in 1..Len(invoices), created \in BOOLEAN : SyncToQuickbooks(i, created)

Send ==
    \E i \in 1..Len(invoices), created \in BOOLEAN, sent \in BOOLEAN :
        SendToCustomer(i, created, sent)

\* check_payment_status as the method is written: it takes any invoice, in
\* any status, and any answer of the accounting system
Check ==
    \E i \in 1..Len(invoices) :
        \E resp \in Responses(invoices[i]) : CheckPaymentStatus(i, resp)

Next == Create \/ AutoSendStep \/ Sync \/ Send \/ Check \/ Tick

Spec == InitInvoices /\ [][Next]_vars

\* SpecSeq: invoices created one after the other
CreateNext ==
    /\ Len(invoices) < MaxInvoices
    /\ \E c \in Opt(Customers), a \in BOOLEAN :
          CreateInvoiceFromLoad(c, <<FreightCharge>>, a)

NextSeq == CreateNext \/ AutoSendStep \/ Tick

SpecSeq == InitInvoices /\ [][NextSeq]_vars

---------------------------------------------------------------------------
(* SpecConc: two create_invoice_from_load calls on separate sessions.  A    *)
(* call reads the committed rows when it generates its number; its flush   *)
(* and commit insert the row, or fail on the unique invoice_number index,  *)
(* in which case the call rolls back and returns None.                     *)

Procs == {1, 2}

InitConc ==
    /\ container = [picked_up |-> None, returned_empty |-> None,
                    per_diem_starts |-> None]
    /\ customer = [per_diem_free_days |-> None, free_days |-> None,
                   per_diem_rate |-> None]
    /\ as_of_date = None
    /\ per_diem = None
    /\ load = NoLoad
    /\ accrual = NoCall
    /\ raised = FALSE
    /\ charges_table = <<>>
    /\ billing = Idle
    /\ today = 0
    /\ invoices = <<>>
    /\ qb = <<>>
    /\ pc = Idle
    /\ last = NoCall
    /\ builds = [p \in Procs |-> Idle]

InFlight == Cardinality({p \in Procs : builds[p].at = "built"})

\* lines 48-81: the Invoice row is built from what the session reads, for a
\* customer whose terms give a due date
BuildBegin(p, cust, charges) ==
    /\ builds[p].at = "idle"
    /\ ~ due_date_raises(cust.payment_terms)
    /\ Len(invoices) + InFlight < MaxBuilds
    /\ builds' = [builds EXCEPT
                    ![p] = [at |-> "built",
                            inv |-> NewInvoice(invoices, cust, charges)]]
    /\ UNCHANGED <<calcVars, billVars, today, invoices, qb, pc, last>>

\* lines 83-127: flush and commit, or IntegrityError, rollback, return None
BuildCommit(p) ==
    /\ builds[p].at = "built"
    /\ IF HasNumber(invoices, builds[p].inv.invoice_number)
         THEN /\ builds' = [builds EXCEPT
                              ![p] = [at |-> "done", ok |-> FALSE,
                                      read |-> builds[p].inv.invoice_number]]
              /\ UNCHANGED invoices
         ELSE /\ invoices' = Append(invoices, builds[p].inv)
              /\ builds' = [builds EXCEPT
                              ![p] = [at |-> "done", ok |-> TRUE,
                                      read |-> builds[p].inv.invoice_number]]
    /\ UNCHANGED <<calcVars, billVars, today, qb, pc, last>>

\* the caller takes the result; the session is free for the next load
BuildReturn(p) ==
    /\ builds[p].at = "done"
    /\ builds' = [builds EXCEPT ![p] = Idle]
    /\ UNCHANGED <<calcVars, billVars, today, invoices, qb, pc, last>>

Begin ==
    \E p \in Procs, c \in Customers, ch \in ChargeLists : BuildBegin(p, c, ch)

Commit == \E p \in Procs : BuildCommit(p)

Return == \E p \in Procs : BuildReturn(p)

NextConc == Begin \/ Commit \/ Return

SpecConc == InitConc /\ [][NextConc]_vars

---------------------------------------------------------------------------
(* SpecCalc: the calculator applied to every bounded input *)

FreeDayValues == {-1, 0, 2}

RateValues == {-50, 0, 150}

Containers ==
    [picked_up : Opt(Dates), returned_empty : Opt(Dates),
     per_diem_starts : Opt(Dates)]

CalcCustomers ==
    [per_diem_free_days : Opt(FreeDayValues), free_days : Opt({0, 1}),
     per_diem_rate : Opt(RateValues)]

InitCalc ==
    /\ container \in Containers
    /\ customer \in CalcCustomers
    /\ as_of_date \in Opt(Dates)
    /\ per_diem = None
    /\ load = NoLoad
    /\ accrual = NoCall
    /\ raised = FALSE
    /\ charges_table = <<>>
    /\ billing = Idle
    /\ today = MaxDate
    /\ invoices = <<>>
    /\ qb = <<>>
    /\ pc = Idle
    /\ last = NoCall
    /\ builds = <<>>

\* one call of calculate_per_diem; its try/except lets no exception out
CalculatePerDiem ==
    /\ per_diem = None
    /\ accrual = NoCall
    /\ per_diem' = Some(calculate_per_diem(container, customer, as_of_date))
    /\ raised' = FALSE
    /\ UNCHANGED <<container, customer, as_of_date, load, accrual, today,
                   invoices, qb, pc, last, builds, billVars>>

NextCalc == CalculatePerDiem

SpecCalc == InitCalc /\ [][NextCalc]_vars

---------------------------------------------------------------------------
(* SpecAccrual: the three accrual calculations and calculate_all_charges,  *)
(* each applied once to every bounded container, contract and load         *)

MaxDay == 2

Days == 0..MaxDay

AccrualContainers ==
    [vessel_discharged : Opt(Days), picked_up : Opt(Days),
     delivered : Opt(Days), returned_empty : Opt({0, MaxDay}),
     per_diem_starts : Opt({1}), demurrage_starts : Opt({1})]

\* contracts: nothing configured, positive, zero and negative settings
DefaultContract ==
    [per_diem_free_days |-> None, free_days |-> None,
     demurrage_free_days |-> None, per_diem_rate |-> None,
     demurrage_rate |-> None, detention_rate |-> None]

PositiveContract ==
    [per_diem_free_days |-> Some(1), free_days |-> Some(2),
     demurrage_free_days |-> Some(1), per_diem_rate |-> Some(10),
     demurrage_rate |-> Some(15), detention_rate |-> Some(12)]

ZeroContract ==
    [per_diem_free_days |-> Some(0), free_days |-> Some(1),
     demurrage_free_days |-> Some(0), per_diem_rate |-> Some(0),
     demurrage_rate |-> Some(0), detention_rate |-> Some(0)]

NegativeContract ==
    [per_diem_free_days |-> Some(-1), free_days |-> None,
     demurrage_free_days |-> Some(-1), per_diem_rate |-> Some(-50),
     demurrage_rate |-> Some(-50), detention_rate |-> Some(-50)]

AccrualCustomers ==
    {DefaultContract, PositiveContract, ZeroContract, NegativeContract}

\* Load rows over a container and a customer
AccrualLoads(cont, cust) ==
    { [id |-> 1, base_freight_rate |-> None, container |-> Some(cont),
       customer |-> cust],
      [id |-> 1, base_freight_rate |-> Some(0), container |-> Some(cont),
       customer |-> cust],
      [id |-> 1, base_freight_rate |-> Some(20), container |-> Some(cont),
       customer |-> cust],
      [id |-> 1, base_freight_rate |-> Some(20), container |-> None,
       customer |-> cust] }

InitAccrual ==
    /\ container \in AccrualContainers
    /\ customer \in AccrualCustomers
    /\ as_of_date \in Opt(Days)
    /\ load \in AccrualLoads(container, customer)
    /\ per_diem = None
    /\ accrual = NoCall
    /\ raised = FALSE
    /\ today = MaxDay
    /\ invoices = <<>>
    /\ qb = <<>>
    /\ pc = Idle
    /\ last = NoCall
    /\ builds = <<>>
    /\ charges_table = <<>>
    /\ billing = Idle

\* one call of calculate_demurrage
CalculateDemurrage ==
    /\ per_diem = None
    /\ accrual = NoCall
    /\ accrual' = [op |-> "demurrage",
                   value |-> calculate_demurrage(container, customer,
                                                 as_of_date)]
    /\ raised' = FALSE
    /\ UNCHANGED <<container, customer, as_of_date, per_diem, load, today,
                   invoices, qb, pc, last, builds, billVars>>

\* one call of calculate_detention
CalculateDetention ==
    /\ per_diem = None
    /\ accrual = NoCall
    /\ accrual' = [op |-> "detention",
                   value |-> calculate_detention(container, customer,
                                                 as_of_date)]
    /\ raised' = FALSE
    /\ UNCHANGED <<container, customer, as_of_date, per_diem, load, today,
                   invoices, qb, pc, last, builds, billVars>>

\* one call of calculate_all_charges
CalculateAllCharges ==
    /\ per_diem = None
    /\ accrual = NoCall
    /\ accrual' = [op |-> "all_charges",
                   value |-> calculate_all_charges(load, as_of_date)]
    /\ raised' = FALSE
    /\ UNCHANGED <<container, customer, as_of_date, per_diem, load, today,
                   invoices, qb, pc, last, builds, billVars>>

NextAccrual ==
    \/ CalculatePerDiem
    \/ CalculateDemurrage
    \/ CalculateDetention
    \/ CalculateAllCharges

SpecAccrual == InitAccrual /\ [][NextAccrual]_vars

---------------------------------------------------------------------------
(* SpecWindow: the accrual calculations repeated on one container while    *)
(* the customer's free-day columns are edited; milestones, as-of date and  *)
(* calendar stay as they are                                               *)

WindowContainers ==
    [vessel_discharged : Opt(Days), picked_up : Opt(Days),
     delivered : {None}, returned_empty : Opt({MaxDay}),
     per_diem_starts : Opt({1}), demurrage_starts : Opt({1})]

FreeDayEdits == {1, 2}

InitWindow ==
    /\ container \in WindowContainers
    /\ customer \in {DefaultContract, PositiveContract}
    /\ as_of_date \in Opt(Days)
    /\ load = NoLoad
    /\ per_diem = None
    /\ accrual = NoCall
    /\ raised = FALSE
    /\ today = MaxDay
    /\ invoices = <<>>
    /\ qb = <<>>
    /\ pc = Idle
    /\ last = NoCall
    /\ builds = <<>>
    /\ charges_table = <<>>
    /\ billing = Idle

\* a call of calculate_per_diem: it reads the container and writes nothing
RecalculatePerDiem ==
    /\ per_diem' = Some(calculate_per_diem(container, customer, as_of_date))
    /\ raised' = FALSE
    /\ UNCHANGED <<container, customer, as_of_date, load, accrual, today,
                   invoices, qb, pc, last, builds, billVars>>

\* a call of calculate_demurrage: it reads the container and writes nothing
RecalculateDemurrage ==
    /\ accrual' = [op |-> "demurrage",
                   value |-> calculate_demurrage(container, customer,
                                                 as_of_date)]
    /\ raised' = FALSE
    /\ UNCHANGED <<container, customer, as_of_date, per_diem, load, today,
                   invoices, qb, pc, last, builds, billVars>>

\* contract administration edits the customer's free-day columns
SetPerDiemFreeDays(n) ==
    /\ customer' = [customer EXCEPT !.per_diem_free_days = Some(n)]
    /\ UNCHANGED <<container, as_of_date, per_diem, load, accrual, raised,
                   today, invoices, qb, pc, last, builds, billVars>>

SetDemurrageFreeDays(n) ==
    /\ customer' = [customer EXCEPT !.demurrage_free_days = Some(n)]
    /\ UNCHANGED <<container, as_of_date, per_diem, load, accrual, raised,
                   today, invoices, qb, pc, last, builds, billVars>>

EditPerDiemFreeDays == \E n \in FreeDayEdits : SetPerDiemFreeDays(n)

EditDemurrageFreeDays == \E n \in FreeDayEdits : SetDemurrageFreeDays(n)

NextWindow ==
    \/ RecalculatePerDiem
    \/ RecalculateDemurrage
    \/ EditPerDiemFreeDays
    \/ EditDemurrageFreeDays

SpecWindow == InitWindow /\ [][NextWindow]_vars

---------------------------------------------------------------------------
(* SpecAsOf: the accrual calculations repeated on one container and one    *)
(* contract while the as-of date of the calls, or the calendar behind a    *)
(* call without as-of date, moves forward                                  *)

AsOfContainers ==
    [vessel_discharged : Opt({0}), picked_up : Opt(Days),
     delivered : Opt({MaxDay}), returned_empty : Opt({MaxDay}),
     per_diem_starts : Opt({1}), demurrage_starts : Opt({1})]

InitAsOf ==
    /\ container \in AsOfContainers
    /\ customer \in {PositiveContract, NegativeContract}
    /\ as_of_date \in Opt({0})
    /\ load = NoLoad
    /\ per_diem = None
    /\ accrual = NoCall
    /\ raised = FALSE
    /\ today = 0
    /\ invoices = <<>>
    /\ qb = <<>>
    /\ pc = Idle
    /\ last = NoCall
    /\ builds = <<>>
    /\ charges_table = <<>>
    /\ billing = Idle

\* a call of calculate_detention: it reads the container and writes nothing
RecalculateDetention ==
    /\ accrual' = [op |-> "detention",
                   value |-> calculate_detention(container, customer,
                                                 as_of_date)]
    /\ raised' = FALSE
    /\ UNCHANGED <<container, customer, as_of_date, per_diem, load, today,
                   invoices, qb, pc, last, builds, billVars>>

\* the next calls are made with the following day as their as_of_date
AdvanceAsOf ==
    /\ as_of_date # None
    /\ Val(as_of_date) < MaxDate
    /\ as_of_date' = Some(Val(as_of_date) + 1)
    /\ UNCHANGED <<container, customer, per_diem, load, accrual, raised,
                   today, invoices, qb, pc, last, builds, billVars>>

\* date.today() moves on under the calls made without as_of_date
NextDay ==
    /\ as_of_date = None
    /\ Tick

NextAsOf ==
    \/ RecalculatePerDiem
    \/ RecalculateDemurrage
    \/ RecalculateDetention
    \/ AdvanceAsOf
    \/ NextDay

SpecAsOf == InitAsOf /\ [][NextAsOf]_vars

---------------------------------------------------------------------------
(* SpecTrack: a container from start_tracking_container on.  Terminal49    *)
(* reports the milestones; the row caches the last free day as the start   *)
(* of per-diem; later reports overwrite the milestones and leave the       *)
(* cached dates alone; per-diem is calculated in between.                  *)

\* what Terminal49 reports about a container
Reports ==
    [vessel_discharged : Opt({0}), available_for_pickup : Opt({0, 1}),
     picked_up : Opt(Days), returned_empty : Opt({MaxDay})]

\* customer.free_days or settings.default_free_days
FreeDays(cust) ==
    IF Truthy(cust.free_days) THEN Val(cust.free_days) ELSE default_free_days

\* calculate_last_free_day
calculate_last_free_day(cont, cust) ==
    IF cont.vessel_discharged # None
      THEN Some(Val(cont.vessel_discharged) + FreeDays(cust))
    ELSE IF cont.available_for_pickup # None
      THEN Some(Val(cont.available_for_pickup) + FreeDays(cust))
    ELSE None

\* no Container row yet
Untracked ==
    [tracked |-> FALSE, vessel_discharged |-> None,
     available_for_pickup |-> None, picked_up |-> None,
     returned_empty |-> None, last_free_day |-> None,
     per_diem_starts |-> None]

InitTrack ==
    /\ container = Untracked
    /\ customer \in {DefaultContract, PositiveContract, ZeroContract}
    /\ as_of_date \in Opt(Days)
    /\ load = NoLoad
    /\ per_diem = None
    /\ accrual = NoCall
    /\ raised = FALSE
    /\ today = MaxDay
    /\ invoices = <<>>
    /\ qb = <<>>
    /\ pc = Idle
    /\ last = NoCall
    /\ builds = <<>>
    /\ charges_table = <<>>
    /\ billing = Idle

\* start_tracking_container: the row is created from the report, and the
\* last free day, when there is one, is cached as the start of per-diem
StartTrackingContainer(t49_container) ==
    /\ ~ container.tracked
    /\ LET row == [tracked |-> TRUE,
                   vessel_discharged |-> t49_container.vessel_discharged,
                   available_for_pickup |->
                       t49_container.available_for_pickup,
                   picked_up |-> t49_container.picked_up,
                   returned_empty |-> t49_container.returned_empty,
                   last_free_day |-> None,
                   per_diem_starts |-> None]
           last_free_day == calculate_last_free_day(row, customer)
       IN  container' = IF last_free_day # None
                          THEN [row EXCEPT !.last_free_day = last_free_day,
                                           !.per_diem_starts = last_free_day]
                          ELSE row
    /\ last' = [op |-> "track"]
    /\ UNCHANGED <<customer, as_of_date, per_diem, load, accrual, raised,
                   today, invoices, qb, pc, builds, billVars>>

\* update_container_status: the milestones are overwritten by the report
UpdateContainerStatus(t49_container) ==
    /\ container.tracked
    /\ container' =
          [container EXCEPT
             !.vessel_discharged = t49_container.vessel_discharged,
             !.available_for_pickup = t49_container.available_for_pickup,
             !.picked_up = t49_container.picked_up,
             !.returned_empty = t49_container.returned_empty]
    /\ last' = [op |-> "update"]
    /\ UNCHANGED <<customer, as_of_date, per_diem, load, accrual, raised,
                   today, invoices, qb, pc, builds, billVars>>

\* a call of calculate_per_diem on the tracked container
PerDiemOfTracked ==
    /\ container.tracked
    /\ per_diem' = Some(calculate_per_diem(container, customer, as_of_date))
    /\ raised' = FALSE
    /\ last' = [op |-> "per_diem"]
    /\ UNCHANGED <<container, customer, as_of_date, load, accrual, today,
                   invoices, qb, pc, builds, billVars>>

\* a later report keeps what an earlier one said and may add milestones
Later(t49_container) ==
    \A f \in DOMAIN t49_container :
        container[f] # None => t49_container[f] = container[f]

StartTracking == \E r \in Reports : StartTrackingContainer(r)

UpdateStatus ==
    \E r \in Reports : Later(r) /\ UpdateContainerStatus(r)

NextTrack == StartTracking \/ UpdateStatus \/ PerDiemOfTracked

SpecTrack == InitTrack /\ [][NextTrack]_vars

---------------------------------------------------------------------------
(* SpecBill: process_load_billing, one load after the other, as            *)
(* process_pending_invoices calls it for the loads without invoiced        *)
(* charge.  The charges are committed first (line 61); then                *)
(* create_invoice_from_load creates the invoice and auto-sends it, and the *)
(* accounting sync of lines 72-73 follows.  A failure of the flush or of   *)
(* the commit inside create_invoice_from_load rolls the session back.      *)

\* the runs of process_load_billing that persist charges
MaxLoads == 2

\* a Customer row: the invoicing columns of c and the contract columns of k
Account(c, k) ==
    [id |-> c.id, auto_invoice |-> c.auto_invoice,
     quickbooks_customer_id |-> c.quickbooks_customer_id,
     payment_terms |-> c.payment_terms,
     per_diem_free_days |-> k.per_diem_free_days,
     free_days |-> k.free_days,
     demurrage_free_days |-> k.demurrage_free_days,
     per_diem_rate |-> k.per_diem_rate,
     demurrage_rate |-> k.demurrage_rate,
     detention_rate |-> k.detention_rate]

\* nothing has happened to the container yet
UntouchedContainer ==
    [vessel_discharged |-> None, picked_up |-> None, delivered |-> None,
     returned_empty |-> None, per_diem_starts |-> None,
     demurrage_starts |-> None]

\* picked up on day 0, delivered the same day, not returned
HeldContainer ==
    [vessel_discharged |-> None, picked_up |-> Some(0), delivered |-> Some(0),
     returned_empty |-> None, per_diem_starts |-> None,
     demurrage_starts |-> None]

\* picked up on day 0 and not delivered
UndeliveredContainer ==
    [vessel_discharged |-> None, picked_up |-> Some(0), delivered |-> None,
     returned_empty |-> None, per_diem_starts |-> None,
     demurrage_starts |-> None]

BillingContainers == <<UntouchedContainer, HeldContainer, UndeliveredContainer>>

BillingLoads ==
    { [id |-> 10 * c.id + n, base_freight_rate |-> Some(20),
       container |-> Some(BillingContainers[n]),
       customer |-> Account(c, PositiveContract)] :
        c \in Customers, n \in 1..Len(BillingContainers) }

\* what the validation comes to: the model approves, the model rejects, or
\* the call fails
Verdicts == {"approved", "rejected", "error"}

\* validate_charges returns a dict, whatever the verdict was: the validation
\* dict of lines 154-166, or the dict of its except clause (lines 170-173)
validate_charges(verdict) ==
    IF verdict = "error"
      THEN [approved |-> FALSE, reason |-> "Validation error"]
      ELSE [approved |-> verdict = "approved", reasoning |-> verdict]

\* truth value of a dict: empty or not
DictTruthy(d) == DOMAIN d # {}

\* the Charge rows added for a load (lines 59-60)
ChargeRows(ld, cs) ==
    [k \in 1..Len(cs) |-> [load_id |-> ld.id, invoice_id |-> None,
                           charge |-> cs[k]]]

BilledLoads == {charges_table[k].load_id : k \in 1..Len(charges_table)}

RowsOfLoad(load_id) ==
    {k \in 1..Len(charges_table) : charges_table[k].load_id = load_id}

\* invoice.charges = charges (line 109), committed with the invoice
LinkCharges(table, load_id, invoice_id) ==
    [k \in 1..Len(table) |->
        IF table[k].load_id = load_id
          THEN [table[k] EXCEPT !.invoice_id = Some(invoice_id)]
          ELSE table[k]]

\* a slip: the charge links written before the failure survive it
RollbackKeepsLinks(table, load_id, invoice_id) ==
    LinkCharges(table, load_id, invoice_id)

\* db.rollback() (line 126): the uncommitted invoice and the uncommitted
\* charge links are discarded, the committed rows are as they were
Rollback(table, load_id, invoice_id) == table

\* a slip: the customer's auto_invoice setting is not consulted
ShouldInvoiceAlways(cust) == TRUE

\* line 64
ShouldInvoice(cust) == cust.auto_invoice

\* the runs of process_load_billing that persisted charges: each of them
\* added one base freight row
PersistingRuns ==
    {k \in 1..Len(charges_table) :
        charges_table[k].charge.charge_type = "base_freight"}

\* process_pending_invoices skips a load that has a charge with an invoice
\* (celery_tasks.py lines 225-227)
AlreadyInvoiced(load_id) ==
    \E k \in RowsOfLoad(load_id) : charges_table[k].invoice_id # None

\* what process_load_billing has returned: `charges` are the rows this run
\* persisted, `validation` the dict validate_charges gave when the run
\* ended on it
Returned(ld, cs, validation, invoice, error) ==
    [at |-> "returned", load |-> ld, charges |-> cs,
     validation |-> validation, invoice |-> invoice, error |-> error]

\* lines 44-61: calculate, validate, add and commit the charges
PersistCharges(ld, verdict) ==
    /\ billing = Idle
    /\ pc = Idle
    /\ ~ AlreadyInvoiced(ld.id)
    /\ Cardinality(PersistingRuns) < MaxLoads
    /\ LET cs == calculate_all_charges(ld, None)
           validation == validate_charges(verdict)
       IN  IF cs = <<>>
             THEN /\ billing' = Returned(ld, <<>>, None, None, FALSE)
                  /\ UNCHANGED charges_table
           ELSE IF ~ DictTruthy(validation)
             THEN /\ billing' = Returned(ld, <<>>, Some(validation), None,
                                          FALSE)
                  /\ UNCHANGED charges_table
           ELSE /\ charges_table' = charges_table \o ChargeRows(ld, cs)
                /\ billing' = [at |-> "persisted", load |-> ld,
                               charges |-> cs,
                               validation |-> Some(validation)]
    /\ UNCHANGED <<calcVars, today, invoices, qb, pc, last, builds>>

\* lines 63-69 with create_invoice_from_load up to its commit
\* (invoice_generator.py 47-115): `failure` is where the database refuses
InvoiceStep(failure) ==
    /\ billing.at = "persisted"
    /\ LET ld == billing.load
           cust == ld.customer
           cs == billing.charges
           inv == NewInvoice(invoices, cust, cs)
           invoice_id == Len(invoices) + 1
       IN  IF ~ ShouldInvoice(cust)
             THEN /\ billing' = Returned(ld, cs, None, None, FALSE)
                  /\ UNCHANGED <<charges_table, invoices>>
           ELSE IF \/ failure # "none"
                   \/ due_date_raises(cust.payment_terms)
                   \/ HasNumber(invoices, inv.invoice_number)
             THEN \* rollback, None returned; line 75 then raises on None
                  \* and the handler of lines 80-83 returns None
                  /\ charges_table'
                       = Rollback(charges_table, ld.id, invoice_id)
                  /\ billing' = Returned(ld, cs, None, None, TRUE)
                  /\ UNCHANGED invoices
           ELSE /\ invoices' = Append(invoices, inv)
                /\ charges_table'
                     = LinkCharges(charges_table, ld.id, invoice_id)
                /\ billing' = [at |-> "created", load |-> ld, charges |-> cs,
                               invoice |-> invoice_id]
    /\ UNCHANGED <<calcVars, today, qb, pc, last, builds>>

\* the auto-send of create_invoice_from_load (invoice_generator.py
\* 118-120), called with auto_send = True: `created` and `sent` are the
\* answers of the accounting client
BillingAutoSend(created, sent) ==
    /\ billing.at = "created"
    /\ LET i == billing.invoice
           r == IF billing.load.customer.auto_invoice
                  THEN send_to_customer(invoices[i], qb, created, sent)
                  ELSE [ok |-> FALSE, inv |-> invoices[i], qb |-> qb]
       IN  /\ invoices' = [invoices EXCEPT ![i] = r.inv]
           /\ qb' = r.qb
    /\ billing' = [billing EXCEPT !.at = "auto_sent"]
    /\ UNCHANGED <<calcVars, today, pc, last, builds, charges_table>>

\* lines 71-76: the sync of the orchestrator, then the invoice is returned;
\* `created` is the answer of the accounting client
BillingSync(created) ==
    /\ billing.at = "auto_sent"
    /\ LET i == billing.invoice
           r == IF billing.load.customer.quickbooks_customer_id # None
                  THEN sync_to_quickbooks(invoices[i], qb, created)
                  ELSE [ok |-> FALSE, inv |-> invoices[i], qb |-> qb]
       IN  /\ invoices' = [invoices EXCEPT ![i] = r.inv]
           /\ qb' = r.qb
    /\ billing' = Returned(billing.load, billing.charges, None,
                           Some(billing.invoice), FALSE)
    /\ UNCHANGED <<calcVars, today, pc, last, builds, charges_table>>

\* the caller takes the result
BillingReturn ==
    /\ billing.at = "returned"
    /\ billing' = Idle
    /\ UNCHANGED <<calcVars, today, invoices, qb, pc, last, builds,
                   charges_table>>

Failures == {"none", "flush", "commit"}

BillLoad ==
    \E ld \in BillingLoads, verdict \in Verdicts : PersistCharges(ld, verdict)

InvoiceLoad == \E failure \in Failures : InvoiceStep(failure)

AutoSendLoad ==
    \E created \in BOOLEAN, sent \in BOOLEAN : BillingAutoSend(created, sent)

SyncLoad == \E created \in BOOLEAN : BillingSync(created)

NextBill ==
    \/ BillLoad
    \/ InvoiceLoad
    \/ AutoSendLoad
    \/ SyncLoad
    \/ BillingReturn
    \/ Tick

SpecBill == InitInvoices /\ [][NextBill]_vars

---------------------------------------------------------------------------
(* SpecBuild: create_invoice_from_load over the payment terms a customer   *)
(* row can hold and over charge lists that do and do not call for review   *)

\* "Net 2 days": the last token is not an integer
NetTwoDays == <<Word("Net"), Num("2", 2), Word("days")>>

\* "Due on Receipt 1": the phrase, followed by an integer token
DueOnReceiptOne == DueOnReceipt \o <<Num("1", 1)>>

\* "due on receipt": the phrase in another case
LowerCaseReceipt == <<Word("due"), Word("on"), Word("receipt")>>

\* NULL, the empty string, and the strings above
TermsValues ==
    { None, Some(<<>>), Some(Net1), Some(DueOnReceipt), Some(UponInvoice),
      Some(NetTwoDays), Some(DueOnReceiptOne), Some(LowerCaseReceipt) }

TermsCustomers ==
    { [id |-> 4, auto_invoice |-> TRUE, quickbooks_customer_id |-> Some("QB-4"),
       payment_terms |-> t] : t \in TermsValues }

\* Charge rows by their review-relevant columns
ScoredCharge(amount, confidence) ==
    [charge_type |-> "base_freight", description |-> "Base freight",
     rate |-> amount, quantity |-> 1, amount |-> amount, is_billable |-> TRUE,
     is_disputed |-> FALSE, ai_confidence_score |-> confidence]

LowConfidenceCharge == ScoredCharge(20, Some(50))

ZeroConfidenceCharge == ScoredCharge(20, Some(0))

BoundaryConfidenceCharge == ScoredCharge(20, Some(ReviewConfidence))

UnscoredCharge == ScoredCharge(20, None)

DisputedCharge == [FreightCharge EXCEPT !.is_disputed = TRUE]

ThresholdCharge == ScoredCharge(HighValueThreshold, Some(100))

OverThresholdCharge == ScoredCharge(HighValueThreshold + 1, Some(100))

AbsorbedHighValueCharge == [ThresholdCharge EXCEPT !.is_billable = FALSE]

ReviewCharges ==
    { FreightCharge, PerDiemCharge, AbsorbedCharge, LowConfidenceCharge,
      ZeroConfidenceCharge, BoundaryConfidenceCharge, UnscoredCharge,
      DisputedCharge, ThresholdCharge, OverThresholdCharge,
      AbsorbedHighValueCharge }

BuildChargeLists ==
    {<<>>} \cup { <<c>> : c \in ReviewCharges }
           \cup { <<c, d>> : c \in ReviewCharges, d \in ReviewCharges }
           \cup { <<FreightCharge, AbsorbedCharge, PerDiemCharge>> }

BuildInvoice ==
    /\ invoices = <<>>
    /\ \E c \in TermsCustomers, ch \in BuildChargeLists, a \in BOOLEAN :
          CreateInvoiceFromLoad(Some(c), ch, a)

NextBuild == BuildInvoice \/ AutoSendStep \/ Tick

SpecBuild == InitInvoices /\ [][NextBuild]_vars

---------------------------------------------------------------------------
(* C1 *)

\* The free-day allowance as the rate resolver defines it: the customer's
\* per-diem allowance when configured (zero included), else the general
\* allowance, else the default.
ResolvedPerDiemFreeDays(cust) ==
    IF cust.per_diem_free_days # None THEN Val(cust.per_diem_free_days)
    ELSE IF cust.free_days # None THEN Val(cust.free_days)
    ELSE default_free_days

\* The rate as the rate resolver defines it: the customer's rate when
\* present and > 0, else the default.
ResolvedPerDiemRate(cust) ==
    IF cust.per_diem_rate # None /\ Val(cust.per_diem_rate) > 0
      THEN Val(cust.per_diem_rate)
      ELSE default_per_diem_rate

\* C1: for every container with picked_up set, calculate_per_diem returns
\* (0, 0) when end <= charge_start and otherwise days = end - charge_start
\* and amount = days * resolved rate, where end is returned_empty else the
\* as-of date and charge_start is the cached per_diem_starts else
\* picked_up + resolved per-diem free days.
C1_PerDiemContract ==
    (per_diem # None /\ container.picked_up # None) =>
        LET end == IF container.returned_empty # None
                     THEN Val(container.returned_empty)
                     ELSE IF as_of_date # None THEN Val(as_of_date) ELSE today
            charge_start ==
                IF container.per_diem_starts # None
                  THEN Val(container.per_diem_starts)
                  ELSE Val(container.picked_up)
                         + ResolvedPerDiemFreeDays(customer)
        IN  Val(per_diem) =
              IF end <= charge_start THEN <<0, 0>>
              ELSE <<end - charge_start,
                     (end - charge_start) * ResolvedPerDiemRate(customer)>>

\* The same contract restricted to customers whose settings are all positive
\* or absent: there the code and the contract agree.
PerDiemContractPositiveSettings ==
    (/\ customer.per_diem_free_days \notin {Some(0), Some(-1)}
     /\ customer.free_days # Some(0)
     /\ customer.per_diem_rate \notin {Some(0), Some(-50)})
    => C1_PerDiemContract

---------------------------------------------------------------------------
(* C2 *)

RECURSIVE SumBillableFrom(_, _)
SumBillableFrom(charges, k) ==
    IF k > Len(charges) THEN 0
    ELSE (IF charges[k].is_billable THEN charges[k].amount ELSE 0)
           + SumBillableFrom(charges, k + 1)

\* C2: an invoice's subtotal is the sum of the amounts of its billable
\* charges only, its tax is 0 and its total is subtotal + tax; when
\* create_invoice_from_load has committed it, its balance_due equals the
\* total and its status is draft.
C2_InvoiceTotals ==
    /\ \A i \in 1..Len(invoices) :
          /\ invoices[i].subtotal = SumBillableFrom(invoices[i].charges, 1)
          /\ invoices[i].tax_amount = 0
          /\ invoices[i].total_amount
               = invoices[i].subtotal + invoices[i].tax_amount
    /\ (last.op = "create" /\ last.ok) =>
          /\ invoices[last.inv].balance_due = invoices[last.inv].total_amount
          /\ invoices[last.inv].status = "draft"

C2_Witness ==
    /\ last.op = "create"
    /\ last.ok
    /\ \E k \in 1..Len(invoices[last.inv].charges) :
          ~ invoices[last.inv].charges[k].is_billable
    /\ invoices[last.inv].subtotal = 20
    /\ invoices[last.inv].status = "draft"

---------------------------------------------------------------------------
(* C3 *)

CheckApplied == last.op = "check" /\ last.ok

ReportedBalance == Val(last.resp).balance

\* C3: after check_payment_status applied a reported balance of 0, the
\* invoice is paid, its paid_date is the current date, its amount_paid is
\* the invoice total and its balance_due is 0.
C3_ZeroBalancePaid ==
    (CheckApplied /\ ReportedBalance = 0) =>
        /\ invoices[last.inv].status = "paid"
        /\ invoices[last.inv].paid_date = Some(today)
        /\ invoices[last.inv].amount_paid = invoices[last.inv].total_amount
        /\ invoices[last.inv].balance_due = 0

C3_Witness ==
    /\ CheckApplied
    /\ ReportedBalance = 0
    /\ today > 0
    /\ invoices[last.inv].total_amount = 50
    /\ invoices[last.inv].status = "paid"

---------------------------------------------------------------------------
(* C4 *)

\* the step is check_payment_status applying balance b to invoice i
CheckStep(i, b) ==
    /\ last'.op = "check"
    /\ last'.ok
    /\ last'.inv = i
    /\ Val(last'.resp).balance = b

\* the short-payment branch flags the update (lines 256-257, 345-350)
ShortPaymentDetected(i, b) ==
    /\ invoices[i].balance_due > b
    /\ invoices[i].balance_due - b - (invoices[i].total_amount - b)
         > ShortPaymentThreshold

\* C4: when check_payment_status applies a balance b with 0 < b < total
\* and detects no short payment, the invoice becomes partially_paid with
\* amount_paid = total - b.
C4_PartialPayment ==
    [][\A i \in 1..Len(invoices) : \A b \in BalanceValues :
          (/\ CheckStep(i, b)
           /\ 0 < b
           /\ b < invoices[i].total_amount
           /\ ~ ShortPaymentDetected(i, b))
          => /\ invoices'[i].status = "partially_paid"
             /\ invoices'[i].amount_paid = invoices[i].total_amount - b]_vars

C4_Witness ==
    /\ CheckApplied
    /\ ReportedBalance = 20
    /\ invoices[last.inv].total_amount = 50
    /\ invoices[last.inv].status = "partially_paid"
    /\ invoices[last.inv].amount_paid = 30

---------------------------------------------------------------------------
(* C5 *)

\* C5: when a partial payment (0 < b < total, balance decreased) leaves a
\* shortfall, the invoiced amount less what the customer paid, greater than
\* 10, the update sets is_disputed, dispute_amount = shortfall and status
\* disputed; a shortfall of exactly 10 flags no dispute.
C5_ShortPaymentDisputed ==
    [][\A i \in 1..Len(invoices) : \A b \in BalanceValues :
          (/\ CheckStep(i, b)
           /\ 0 < b
           /\ b < invoices[i].total_amount
           /\ invoices[i].balance_due > b)
          => LET shortfall == invoices'[i].total_amount
                                - invoices'[i].amount_paid
             IN  /\ shortfall > ShortPaymentThreshold =>
                       /\ invoices'[i].is_disputed
                       /\ invoices'[i].dispute_amount = Some(shortfall)
                       /\ invoices'[i].status = "disputed"
                 /\ shortfall = ShortPaymentThreshold =>
                       /\ invoices'[i].is_disputed = invoices[i].is_disputed
                       /\ invoices'[i].status = "partially_paid"]_vars

---------------------------------------------------------------------------
(* C6 *)

\* C6: applying the same reported balance to the same invoice twice in a
\* row leaves the invoice as the first application left it.
C6_ReconcileIdempotent ==
    [][(/\ last.op = "check"
        /\ last.ok
        /\ last'.op = "check"
        /\ last'.ok
        /\ last'.inv = last.inv
        /\ last'.resp = last.resp)
       => invoices'[last.inv] = invoices[last.inv]]_vars

---------------------------------------------------------------------------
(* C7 *)

\* C7: an invoice that is sent or partially_paid, evaluated after its due
\* date with a balance still open, becomes overdue; an overdue invoice
\* evaluated again with an unchanged balance stays overdue.
C7_OverdueAfterDueDate ==
    [][\A i \in 1..Len(invoices) : \A b \in BalanceValues :
          /\ (/\ CheckStep(i, b)
              /\ invoices[i].status \in {"sent", "partially_paid"}
              /\ today > invoices[i].due_date
              /\ b > 0)
             => invoices'[i].status = "overdue"
          /\ (/\ CheckStep(i, b)
              /\ invoices[i].status = "overdue"
              /\ b = invoices[i].balance_due)
             => invoices'[i].status = "overdue"]_vars

---------------------------------------------------------------------------
(* C8 *)

\* C8: an update whose invoice cannot be identified, or whose balance is
\* negative, is rejected and changes no field of the invoice.
C8_BadUpdateRejected ==
    [][(/\ last'.op = "check"
        /\ \/ last'.resp = None
           \/ invoices[last'.inv].quickbooks_invoice_id = None
           \/ Val(last'.resp).balance < 0)
       => /\ ~ last'.ok
          /\ invoices' = invoices]_vars

---------------------------------------------------------------------------
(* C9 *)

\* how many of the first i invoices carry the month of invoice i
RankInMonth(i) ==
    Cardinality({j \in 1..i :
                   Month(invoices[j].invoice_date)
                     = Month(invoices[i].invoice_date)})

\* C9: under sequential creations the k-th invoice of a month carries the
\* number INV-<month>-0000k.
C9_SequentialNumbers ==
    \A i \in 1..Len(invoices) :
        invoices[i].invoice_number
          = [prefix |-> Month(invoices[i].invoice_date),
             seq |-> <<0, 0, 0, 0, RankInMonth(i)>>]

C9_Witness ==
    /\ Len(invoices) = 3
    /\ \A i \in 1..3 : invoices[i].invoice_number.prefix = 0
    /\ invoices[1].invoice_number.seq = <<0, 0, 0, 0, 1>>
    /\ invoices[2].invoice_number.seq = <<0, 0, 0, 0, 2>>
    /\ invoices[3].invoice_number.seq = <<0, 0, 0, 0, 3>>

---------------------------------------------------------------------------
(* C10 *)

\* C10: when two builds computed the same number from the same read, both
\* end with their invoice persisted and the two invoices carry distinct
\* numbers.
C10_InterleavedBuildsBothPersist ==
    /\ \A p \in Procs : \A q \in Procs :
          (/\ p # q
           /\ builds[p].at = "done"
           /\ builds[q].at = "done"
           /\ builds[p].read = builds[q].read)
          => (builds[p].ok /\ builds[q].ok)
    /\ \A i \in 1..Len(invoices) : \A j \in 1..Len(invoices) :
          i # j => invoices[i].invoice_number # invoices[j].invoice_number

---------------------------------------------------------------------------
(* C11 *)

\* the invoice step of process_load_billing failed after the charges
\* were committed
InvoiceStepFailed == billing.at = "returned" /\ billing.error

\* C11: no persisted charge refers to an invoice that was not persisted,
\* and when process_load_billing failed after the charges were committed
\* and before the invoice was, all of the load's charges are persisted
\* with invoice_id null.
C11_NoDanglingInvoiceLink ==
    /\ \A k \in 1..Len(charges_table) :
          charges_table[k].invoice_id # None
            => Val(charges_table[k].invoice_id) \in 1..Len(invoices)
    /\ InvoiceStepFailed
          => /\ \A j \in 1..Len(billing.charges) :
                   \E k \in RowsOfLoad(billing.load.id) :
                      charges_table[k].charge = billing.charges[j]
             /\ \A k \in RowsOfLoad(billing.load.id) :
                   charges_table[k].invoice_id = None

C11_Witness ==
    /\ InvoiceStepFailed
    /\ Len(billing.charges) = 2
    /\ Cardinality(RowsOfLoad(billing.load.id)) = 2
    /\ Len(invoices) = 1
    /\ \E k \in 1..Len(charges_table) : charges_table[k].invoice_id = Some(1)

---------------------------------------------------------------------------
(* C12 *)

\* C12: when the customer of the load has auto-invoicing disabled, the
\* step after the charges were persisted creates no invoice and no line
\* item, hands nothing to the accounting system, leaves the load's charges
\* persisted with invoice_id null, and returns no invoice and no error.
C12_AutoInvoiceDisabled ==
    [][(/\ billing.at = "persisted"
        /\ ~ billing.load.customer.auto_invoice
        /\ billing'.at = "returned")
       => /\ invoices' = invoices
          /\ qb' = qb
          /\ \A j \in 1..Len(billing.charges) :
                \E k \in 1..Len(charges_table') :
                   /\ charges_table'[k].load_id = billing.load.id
                   /\ charges_table'[k].charge = billing.charges[j]
          /\ \A k \in 1..Len(charges_table') :
                charges_table'[k].load_id = billing.load.id
                  => charges_table'[k].invoice_id = None
          /\ billing'.invoice = None
          /\ ~ billing'.error]_vars

C12_Witness ==
    /\ billing.at = "returned"
    /\ ~ billing.load.customer.auto_invoice
    /\ ~ billing.error
    /\ billing.invoice = None
    /\ Len(billing.charges) = 2
    /\ Cardinality(RowsOfLoad(billing.load.id)) = 2
    /\ Len(invoices) = 1

---------------------------------------------------------------------------
(* C13 *)

AllChargesReturned == accrual.op = "all_charges"

\* the positions of the returned charges of one type
RowsOfType(charge_type) ==
    {k \in 1..Len(accrual.value) : accrual.value[k].charge_type = charge_type}

\* C13: for a load with a container and a base_freight_rate (> 0),
\* whatever the milestones, calculate_all_charges returns exactly one
\* base_freight charge, with quantity 1, confidence 1.0 and amount equal
\* to base_freight_rate.
C13_OneBaseFreightCharge ==
    (/\ AllChargesReturned
     /\ load.container # None
     /\ load.base_freight_rate # None
     /\ Val(load.base_freight_rate) > 0)
    => /\ Cardinality(RowsOfType("base_freight")) = 1
       /\ \A k \in RowsOfType("base_freight") :
             /\ accrual.value[k].quantity = 1
             /\ accrual.value[k].ai_confidence_score = Some(100)
             /\ accrual.value[k].amount = Val(load.base_freight_rate)

---------------------------------------------------------------------------
(* C14 *)

\* the (days, amount) an accrual calculation returns for the load
CalculatedAccrual(charge_type) ==
    IF charge_type = "per_diem"
      THEN calculate_per_diem(Val(load.container), load.customer, as_of_date)
    ELSE IF charge_type = "demurrage"
      THEN calculate_demurrage(Val(load.container), load.customer, as_of_date)
    ELSE calculate_detention(Val(load.container), load.customer, as_of_date)

AccrualConfidence(charge_type) == IF charge_type = "detention" THEN 90 ELSE 95

\* C14: calculate_all_charges returns a per_diem, demurrage or detention
\* charge exactly when the calculated day count of that type is > 0, with
\* quantity = days, amount = the calculated amount and confidence 0.95
\* (per-diem, demurrage) or 0.90 (detention).
C14_AccrualChargesEmitted ==
    (AllChargesReturned /\ load.container # None)
    => \A t \in {"per_diem", "demurrage", "detention"} :
          IF CalculatedAccrual(t)[1] > 0
            THEN /\ Cardinality(RowsOfType(t)) = 1
                 /\ \A k \in RowsOfType(t) :
                       /\ accrual.value[k].quantity = CalculatedAccrual(t)[1]
                       /\ accrual.value[k].amount = CalculatedAccrual(t)[2]
                       /\ accrual.value[k].ai_confidence_score
                            = Some(AccrualConfidence(t))
            ELSE RowsOfType(t) = {}

---------------------------------------------------------------------------
(* C15 *)

\* C15: for every combination of milestones, cached start, customer
\* settings and as-of date, calculate_per_diem returns days >= 0 and
\* amount >= 0.
C15_PerDiemNonNegative ==
    per_diem # None => (Val(per_diem)[1] >= 0 /\ Val(per_diem)[2] >= 0)

---------------------------------------------------------------------------
(* C16 *)

\* C16: when the start milestone of an accrual type has not occurred
\* (picked_up for per-diem and detention, vessel_discharged for
\* demurrage), the calculation returns (0, 0) and raises nothing, whatever
\* the other milestones, cached starts and customer settings.
C16_MissingStartMilestoneIsZero ==
    /\ (per_diem # None /\ container.picked_up = None)
          => (Val(per_diem) = <<0, 0>> /\ ~ raised)
    /\ (accrual.op = "demurrage" /\ container.vessel_discharged = None)
          => (accrual.value = <<0, 0>> /\ ~ raised)
    /\ (accrual.op = "detention" /\ container.picked_up = None)
          => (accrual.value = <<0, 0>> /\ ~ raised)

C16_Witness ==
    /\ accrual.op = "demurrage"
    /\ container.vessel_discharged = None
    /\ container.demurrage_starts = Some(1)
    /\ container.picked_up = Some(2)
    /\ customer = PositiveContract
    /\ accrual.value = <<0, 0>>

---------------------------------------------------------------------------
(* C17 *)

\* C17: once calculate_per_diem or calculate_demurrage has computed a
\* window (its start milestone is known), the container carries the start
\* date, and a later call with the same milestones and as-of date returns
\* the day count of the call before, whatever was done to the customer's
\* free-day allowance in between.
C17_WindowStartPersisted ==
    [][/\ (per_diem' # None /\ container.picked_up # None)
            => container'.per_diem_starts # None
       /\ (per_diem # None /\ per_diem' # None)
            => Val(per_diem')[1] = Val(per_diem)[1]
       /\ (accrual'.op = "demurrage" /\ container.vessel_discharged # None)
            => container'.demurrage_starts # None
       /\ (accrual.op = "demurrage" /\ accrual'.op = "demurrage")
            => accrual'.value[1] = accrual.value[1]]_vars

\* The stability half alone: a later call returns the day count of the call
\* before (this is what a cached start on the container gives).
WindowDaysStable ==
    [][/\ (per_diem # None /\ per_diem' # None)
            => Val(per_diem')[1] = Val(per_diem)[1]
       /\ (accrual.op = "demurrage" /\ accrual'.op = "demurrage")
            => accrual'.value[1] = accrual.value[1]]_vars

---------------------------------------------------------------------------
(* C18 *)

\* the rate as the rate resolver defines it: the customer's rate when
\* present and > 0, else the default of that kind
ResolvedRate(customer_rate, default_rate) ==
    IF customer_rate # None /\ Val(customer_rate) > 0
      THEN Val(customer_rate)
      ELSE default_rate

\* C18: every accrual amount is days times a rate > 0, the customer's rate
\* when it is present and > 0 and else the default of its kind, and no
\* accrual charge carries a zero or negative rate.
C18_RatesArePositive ==
    /\ per_diem # None
          => Val(per_diem)[2]
               = Val(per_diem)[1]
                   * ResolvedRate(customer.per_diem_rate, default_per_diem_rate)
    /\ accrual.op = "demurrage"
          => accrual.value[2]
               = accrual.value[1]
                   * ResolvedRate(customer.demurrage_rate,
                                  default_demurrage_rate)
    /\ accrual.op = "detention"
          => accrual.value[2]
               = accrual.value[1]
                   * ResolvedRate(customer.detention_rate,
                                  default_detention_rate)
    /\ AllChargesReturned
          => \A k \in 1..Len(accrual.value) :
                accrual.value[k].charge_type # "base_freight"
                  => accrual.value[k].rate > 0

---------------------------------------------------------------------------
(* C19 *)

AsOf == IF as_of_date # None THEN Val(as_of_date) ELSE today

\* days from a start date to an end date, none when the end is not later
DaysAfter(start_date, end_date) ==
    IF end_date <= start_date THEN 0 ELSE end_date - start_date

\* C19: with per_diem_free_days = 0 and no cached start, per-diem accrues
\* from the pick-up date itself; with demurrage_free_days = 0 and no cached
\* start, demurrage accrues from the discharge date itself.
C19_ZeroFreeDaysHonoured ==
    /\ (/\ per_diem # None
         /\ container.picked_up # None
         /\ container.per_diem_starts = None
         /\ customer.per_diem_free_days = Some(0))
        => Val(per_diem)[1]
             = DaysAfter(Val(container.picked_up),
                         IF container.returned_empty # None
                           THEN Val(container.returned_empty) ELSE AsOf)
    /\ (/\ accrual.op = "demurrage"
         /\ container.vessel_discharged # None
         /\ container.demurrage_starts = None
         /\ customer.demurrage_free_days = Some(0))
        => accrual.value[1]
             = DaysAfter(Val(container.vessel_discharged),
                         IF container.picked_up # None
                           THEN Val(container.picked_up) ELSE AsOf)

---------------------------------------------------------------------------
(* C20 *)

\* C20: when the applicable per-diem free-day allowance is negative and
\* the window is computed from it (pick-up known, no cached start), the
\* call raises to its caller and returns no day count.
C20_NegativeFreeDaysRejected ==
    (/\ per_diem # None
     /\ container.picked_up # None
     /\ container.per_diem_starts = None
     /\ ResolvedPerDiemFreeDays(customer) < 0)
    => raised

---------------------------------------------------------------------------
(* C21 *)

\* The due date the payment terms call for: the invoice date when the terms
\* contain "Due on Receipt", the invoice date plus the trailing integer token
\* when there is one, the invoice date plus 30 days for any other terms
\* value, a missing one included.
ExpectedDueDate(payment_terms, invoice_date) ==
    IF payment_terms = None THEN invoice_date + 30
    ELSE LET terms == Val(payment_terms)
             n == Len(terms)
         IN  IF ContainsDueOnReceipt(terms) THEN invoice_date
             ELSE IF n > 0 /\ terms[n].num # None
                    THEN invoice_date + Val(terms[n].num)
                    ELSE invoice_date + 30

\* C21: create_invoice_from_load for a load with a customer creates the
\* invoice whatever the customer's payment terms (missing and malformed
\* ones included), and its due date is the invoice date for terms containing
\* "Due on Receipt", else the invoice date plus the trailing integer token,
\* else the invoice date plus 30 days.
C21_DueDateFromTerms ==
    (last.op = "create" /\ last.customer # None)
    => /\ last.ok
       /\ invoices[last.inv].due_date
            = ExpectedDueDate(Val(last.customer).payment_terms,
                              invoices[last.inv].invoice_date)

---------------------------------------------------------------------------
(* C22 *)

\* a charge whose confidence is below 0.80, a confidence of 0 included
BelowReviewConfidence(charge) ==
    /\ charge.ai_confidence_score # None
    /\ Val(charge.ai_confidence_score) < 80

\* C22: an invoice has requires_human_review set if and only if one of its
\* charges has a confidence below 0.80 (a confidence of 0 included), or one
\* of its charges is disputed, or the invoice total is strictly above 5000;
\* a total of exactly 5000 does not set it.
C22_ReviewFlag ==
    \A i \in 1..Len(invoices) :
        invoices[i].requires_human_review
          <=> \/ \E k \in 1..Len(invoices[i].charges) :
                    \/ BelowReviewConfidence(invoices[i].charges[k])
                    \/ invoices[i].charges[k].is_disputed
              \/ invoices[i].total_amount > 5000

---------------------------------------------------------------------------
(* C23 *)

BillableIndexes(charges) ==
    {k \in 1..Len(charges) : charges[k].is_billable}

\* the position in the charge list of its j-th billable charge
NthBillable(charges, j) ==
    CHOOSE k \in BillableIndexes(charges) :
        Cardinality({m \in BillableIndexes(charges) : m <= k}) = j

\* C23: every invoice has exactly one line item per billable charge passed
\* to create_invoice_from_load, in the order of the charges and with the
\* charge's description, quantity, unit price and amount; it has none for a
\* non-billable charge; and the line-item amounts add up to the subtotal.
C23_LineItemPerBillableCharge ==
    \A i \in 1..Len(invoices) :
        LET items == invoices[i].line_items
            cs == invoices[i].charges
        IN  /\ Len(items) = Cardinality(BillableIndexes(cs))
            /\ \A j \in 1..Len(items) :
                  LET c == cs[NthBillable(cs, j)]
                  IN  /\ items[j].description = c.description
                      /\ items[j].quantity = c.quantity
                      /\ items[j].unit_price = c.rate
                      /\ items[j].amount = c.amount
            /\ SumAmounts(items) = invoices[i].subtotal

\* C23 witness: an invoice built from a billable, a non-billable and a
\* second billable charge carries two line items.
C23_Witness ==
    \E i \in 1..Len(invoices) :
        /\ invoices[i].charges = <<FreightCharge, AbsorbedCharge, PerDiemCharge>>
        /\ Len(invoices[i].line_items) = 2

---------------------------------------------------------------------------
(* C24 *)

\* C24: between two calculations of the same accrual type on the same
\* container and contract, the later one made for the same or a later as-of
\* date, the day count does not decrease; and when the end milestone of the
\* type is recorded (returned_empty for per-diem, picked_up for demurrage,
\* delivered for detention) days and amount are the same.
C24_AsOfAdvance ==
    [][/\ (per_diem # None /\ per_diem' # None)
          => /\ Val(per_diem')[1] >= Val(per_diem)[1]
             /\ container.returned_empty # None => per_diem' = per_diem
       /\ (accrual.op = "demurrage" /\ accrual'.op = "demurrage")
          => /\ accrual'.value[1] >= accrual.value[1]
             /\ container.picked_up # None => accrual' = accrual
       /\ (accrual.op = "detention" /\ accrual'.op = "detention")
          => /\ accrual'.value[1] >= accrual.value[1]
             /\ container.delivered # None => accrual' = accrual]_vars

\* C24 witness: a detention result computed for an earlier as-of date is
\* positive and final because the delivery is recorded, while the per-diem
\* day count computed earlier is positive and a call made now returns more
\* days, the container not being returned.
C24_Witness ==
    /\ AsOf > 0
    /\ accrual.op = "detention"
    /\ container.delivered # None
    /\ accrual.value[1] > 0
    /\ accrual.value = calculate_detention(container, customer, as_of_date)
    /\ per_diem # None
    /\ container.returned_empty = None
    /\ Val(per_diem)[1] > 0
    /\ Val(per_diem)[1] < calculate_per_diem(container, customer, as_of_date)[1]

---------------------------------------------------------------------------
(* C25 *)

\* draft, then approved, then sent
StatusRank(status) ==
    CASE status = "draft" -> 0
      [] status = "approved" -> 1
      [] status = "sent" -> 2
      [] OTHER -> 3

\* the invoices the accounting system holds under one document number
BooksOf(books, number) ==
    {k \in 1..Len(books) : books[k].doc_number = number}

\* C25: in every step process_load_billing takes after it created the
\* invoice, the status of the invoice stays where it is or advances along
\* draft, approved, sent (a sent invoice is not moved back to approved), and
\* the accounting system holds at most one invoice for it.
C25_StatusOnlyAdvances ==
    [][billing.at \in {"created", "auto_sent"}
       => /\ StatusRank(invoices'[billing.invoice].status)
               >= StatusRank(invoices[billing.invoice].status)
          /\ Cardinality(BooksOf(qb', invoices[billing.invoice].invoice_number))
               <= 1]_vars

---------------------------------------------------------------------------
(* C26 *)

\* C26: where invoices are sent by the auto-send of
\* create_invoice_from_load only, an invoice created with
\* requires_human_review set is never in status sent.
C26_ReviewBlocksAutoSend ==
    \A i \in 1..Len(invoices) :
        invoices[i].requires_human_review => invoices[i].status # "sent"

---------------------------------------------------------------------------
(* C27 *)

\* the persisted charges of one load and one charge type
RowsOfLoadAndType(load_id, charge_type) ==
    {k \in RowsOfLoad(load_id) :
        charges_table[k].charge.charge_type = charge_type}

\* C27: however often a load is billed, it has at most one persisted charge
\* of each charge type.
C27_NoDuplicateCharges ==
    \A k \in 1..Len(charges_table) :
        Cardinality(RowsOfLoadAndType(charges_table[k].load_id,
                                      charges_table[k].charge.charge_type))
          <= 1

---------------------------------------------------------------------------
(* C28 *)

\* C28: a per-diem calculation on a picked-up container counts no more days
\* than lie between the pick-up and the end of the window (the return of
\* the empty container, or the as-of date when it is not returned), also
\* when start_tracking_container cached the start of per-diem.
C28_NoPerDiemBeforePickup ==
    (/\ last.op = "per_diem"
     /\ container.picked_up # None)
    => Val(per_diem)[1]
         <= DaysAfter(Val(container.picked_up),
                      IF container.returned_empty # None
                        THEN Val(container.returned_empty) ELSE AsOf)

---------------------------------------------------------------------------
(* C29 *)

\* C29: when check_payment_status applies a reported balance to an invoice
\* whose status is paid, the status stays paid.
C29_PaidIsFinal ==
    [][\A i \in 1..Len(invoices), b \in BalanceValues :
          (invoices[i].status = "paid" /\ CheckStep(i, b))
            => invoices'[i].status = "paid"]_vars

---------------------------------------------------------------------------
(* C30 *)

\* C30: a run of process_load_billing whose validate_charges reported the
\* charges as not approved, or failed with an error, ends there: it has
\* persisted no charge, it creates no invoice, and it returns None.
C30_RejectedChargesNotPersisted ==
    [][(/\ billing.at = "idle"
        /\ billing'.at # "idle"
        /\ billing'.validation # None
        /\ ~ Val(billing'.validation).approved)
       => /\ billing'.at = "returned"
          /\ charges_table' = charges_table
          /\ invoices' = invoices
          /\ billing'.invoice = None]_vars

====
